---------------------------- MODULE Spec2Model ----------------------------
(***************************************************************************)
(* A model of gnuplot_i.hpp (class Gnuplot), as built on a POSIX system    *)
(* that is not __APPLE__ (the "unix" branches of the preprocessor).        *)
(*                                                                         *)
(* Strings of the program are TLA+ strings; std::string::find is the       *)
(* operator find.  Every member function is an operator on a call context  *)
(* c: the object it is called on (c.g), the static data, the temp files on *)
(* disk, the events of the call in the order the code produces them (c.ev) *)
(* and the exception in flight (c.exc, "" for none).  An action applies    *)
(* one public operation to one session and stores what the call left.      *)
(***************************************************************************)
EXTENDS Integers, Sequences, FiniteSets, TLC

VARIABLES
    gp,             \* the Gnuplot objects: member data of each session
    tmpfile_num,    \* static int Gnuplot::tmpfile_num
    m_sGNUPlotPath, \* static std::string Gnuplot::m_sGNUPlotPath
    terminal_std,   \* static std::string Gnuplot::terminal_std
    disk,           \* paths of the data files that exist on disk
    ev,             \* events of the most recent call, in program order
    last,           \* the most recent call: operation, session, arguments, exception
    drawn,          \* per session: the plot verbs that began a line written to
                    \* the pipe since the construction or the most recent reset
    thr             \* per session: the caller inside create_tmpfile or
                    \* remove_tmpfiles when calls of two sessions overlap: where
                    \* it is (pc), the counter value its quota test read (seen),
                    \* the value it read to update the counter (reg) and the
                    \* update it is to make (delta)

vars == <<gp, tmpfile_num, m_sGNUPlotPath, terminal_std, disk, ev, last, drawn, thr>>

---------------------------------------------------------------------------
\* Program constants and model bounds

GP_MAX_TMP_FILES == 64

m_sGNUPlotFileName == "gnuplot"

\* sessions of the model
Sess == {1, 2}

\* nplots is capped: a call that would raise it beyond MaxPlots is not taken
MaxPlots == 2

\* temp files one session may hold in the specification Spec
MaxFiles == 2

\* temp files a session other than the filler may hold in SpecPool, and the
\* longest list remove_tmpfiles is called on there
MaxList == 2

\* temp files the session may hold in SpecQuota: enough to reach the quota
\* and to ask once more
MaxHeld == 64

---------------------------------------------------------------------------
\* std::string helpers

npos == -1

\* s.find(p): the 0-based position of the first occurrence of p in s, or npos
find(s, p) ==
    LET occ == {i \in 1..(Len(s) + 1 - Len(p)) : SubSeq(s, i, i + Len(p) - 1) = p}
    IN  IF occ = {} THEN npos
        ELSE (CHOOSE i \in occ : \A j \in occ : i <= j) - 1

StartsWith(s, p) == Len(s) >= Len(p) /\ SubSeq(s, 1, Len(p)) = p

EndsWith(s, p) == Len(s) >= Len(p) /\ SubSeq(s, Len(s) + 1 - Len(p), Len(s)) = p

\* operator<< of an unsigned int / size_t
RECURSIVE FmtNat(_)
FmtNat(n) ==
    IF n < 10 THEN SubSeq("0123456789", n + 1, n + 1)
    ELSE FmtNat(n \div 10) \o SubSeq("0123456789", (n % 10) + 1, (n % 10) + 1)

\* operator<< of a double holding a small integer value (default format)
FmtDouble(d) == IF d < 0 THEN "-" \o FmtNat(0 - d) ELSE FmtNat(d)

---------------------------------------------------------------------------
\* Call contexts

Log(c, kind, a, b) == [c EXCEPT !.ev = Append(@, <<kind, a, b>>)]

Throw(c, msg) == [c EXCEPT !.exc = msg]

Running(c) == c.exc = ""

\* member initialisers of all four constructors
NewObject ==
    [life |-> "none", gnucmd |-> "NULL", valid |-> FALSE, two_dim |-> FALSE,
     nplots |-> 0, pstyle |-> "", smooth |-> "", tmpfile_list |-> <<>>]

\* What a call reads from outside the program: the environment variables
\* DISPLAY (set or not) and PATH (<<>> for NULL, <<value>> otherwise), the
\* directories that hold an executable gnuplot, and the outcome of each
\* system call that can fail for reasons outside the program.
DefaultEnv ==
    [DISPLAY |-> TRUE, PATH |-> <<"/bin:/usr/bin">>, exe |-> {"/usr/local/bin"},
     popen_ok |-> TRUE, pclose_ok |-> TRUE, mkstemp_ok |-> TRUE, open_ok |-> TRUE,
     deny |-> 0]

Enter(s, env) ==
    [self |-> s, g |-> gp[s], tmpfile_num |-> tmpfile_num,
     m_sGNUPlotPath |-> m_sGNUPlotPath, terminal_std |-> terminal_std,
     disk |-> disk, env |-> env, tmp |-> "closed", ret |-> "",
     ev |-> <<>>, exc |-> ""]

\* the plot verbs that begin a line written to the pipe
VerbsOf(e) ==
    {v \in {"plot ", "splot "} :
        \E i \in DOMAIN e : e[i][1] = "fputs" /\ StartsWith(e[i][2], v)}

\* the operations that start a session afresh
Resets == {"Gnuplot", "Gnuplot(x)", "reset_plot", "reset_all"}

Leave(s, name, args, c) ==
    /\ c.g.nplots <= MaxPlots
    /\ thr[s].pc = "idle"
    /\ thr' = thr
    /\ drawn' = [drawn EXCEPT
                   ![s] = (IF name \in Resets THEN {} ELSE @) \cup VerbsOf(c.ev)]
    /\ gp' = [gp EXCEPT ![s] = c.g]
    /\ tmpfile_num' = c.tmpfile_num
    /\ m_sGNUPlotPath' = c.m_sGNUPlotPath
    /\ terminal_std' = c.terminal_std
    /\ disk' = c.disk
    /\ ev' = c.ev
    /\ last' = [op |-> name, s |-> s, args |-> args, exc |-> c.exc]

---------------------------------------------------------------------------
\* Gnuplot::cmd

\* cmd without the test for "replot"
cmd_noreplot(c, cmdstr) ==
    IF ~Running(c) \/ ~c.g.valid THEN c
    ELSE
        LET w == Log(Log(c, "fputs", cmdstr \o "\n", ""), "fflush", "", "")
        IN  IF find(cmdstr, "splot") # npos
            THEN [w EXCEPT !.g.two_dim = FALSE, !.g.nplots = @ + 1]
            ELSE IF find(cmdstr, "plot") # npos
                 THEN [w EXCEPT !.g.two_dim = TRUE, !.g.nplots = @ + 1]
            ELSE w

\* cmd without the test of the validity flag
cmd_novalid(c, cmdstr) ==
    IF ~Running(c) THEN c
    ELSE
        LET w == Log(Log(c, "fputs", cmdstr \o "\n", ""), "fflush", "", "")
        IN  IF find(cmdstr, "replot") # npos THEN w
            ELSE IF find(cmdstr, "splot") # npos
                 THEN [w EXCEPT !.g.two_dim = FALSE, !.g.nplots = @ + 1]
            ELSE IF find(cmdstr, "plot") # npos
                 THEN [w EXCEPT !.g.two_dim = TRUE, !.g.nplots = @ + 1]
            ELSE w

cmd(c, cmdstr) ==
    IF ~Running(c) \/ ~c.g.valid THEN c
    ELSE
        LET w == Log(Log(c, "fputs", cmdstr \o "\n", ""), "fflush", "", "")
        IN  IF find(cmdstr, "replot") # npos THEN w
            ELSE IF find(cmdstr, "splot") # npos
                 THEN [w EXCEPT !.g.two_dim = FALSE, !.g.nplots = @ + 1]
            ELSE IF find(cmdstr, "plot") # npos
                 THEN [w EXCEPT !.g.two_dim = TRUE, !.g.nplots = @ + 1]
            ELSE w

showonscreen(c) == cmd(cmd(c, "set output"), "set terminal " \o c.terminal_std)

---------------------------------------------------------------------------
\* The file system as access() sees it

\* user data files: one readable, one without read permission
UserFiles == {"data.dat", "secret.dat"}

NoRead == {"secret.dat"}

\* a path with every run of '/' collapsed, as path resolution does
RECURSIVE Normalize(_)
Normalize(p) ==
    IF Len(p) < 2 THEN p
    ELSE IF SubSeq(p, 1, 2) = "//" THEN Normalize(SubSeq(p, 2, Len(p)))
    ELSE SubSeq(p, 1, 1) \o Normalize(SubSeq(p, 2, Len(p)))

IsProgram(c, p) == \E d \in c.env.exe : Normalize(p) = d \o "/" \o m_sGNUPlotFileName

\* Gnuplot::file_exists for 0 <= mode <= 7: access(filename, mode) == 0,
\* mode being a mask of X_OK = 1, W_OK = 2, R_OK = 4
file_exists(c, filename, mode) ==
    LET isdata == Normalize(filename) \in c.disk
        isprog == IsProgram(c, filename)
        want(bit) == (mode \div bit) % 2 = 1
    IN  /\ isdata \/ isprog
        /\ want(1) => isprog
        /\ want(2) => isdata
        /\ want(4) => isprog \/ Normalize(filename) \notin NoRead

\* file_available without the test of read permission
file_available_exists_only(c, filename) ==
    IF ~Running(c) THEN c
    ELSE IF file_exists(c, filename, 0) THEN c
    ELSE Throw(c, "File \"" \o filename \o "\" does not exist")

file_available(c, filename) ==
    IF ~Running(c) THEN c
    ELSE IF file_exists(c, filename, 0)
         THEN IF ~file_exists(c, filename, 4)
              THEN Throw(c, "No read permission for File \"" \o filename \o "\"")
              ELSE c
    ELSE Throw(c, "File \"" \o filename \o "\" does not exist")

---------------------------------------------------------------------------
\* stringtok and Gnuplot::get_program_path

IsDelim(in, i, delimiters) == find(delimiters, SubSeq(in, i + 1, i + 1)) # npos

\* in.find_first_not_of(delimiters, i) and in.find_first_of(delimiters, i),
\* positions 0-based
find_first_not_of(in, delimiters, i) ==
    LET hit == {k \in i..(Len(in) - 1) : ~IsDelim(in, k, delimiters)}
    IN  IF hit = {} THEN npos ELSE CHOOSE k \in hit : \A m \in hit : k <= m

find_first_of(in, delimiters, i) ==
    LET hit == {k \in i..(Len(in) - 1) : IsDelim(in, k, delimiters)}
    IN  IF hit = {} THEN npos ELSE CHOOSE k \in hit : \A m \in hit : k <= m

RECURSIVE stringtok_loop(_, _, _, _)
stringtok_loop(container, in, delimiters, i0) ==
    IF ~(i0 < Len(in)) THEN container
    ELSE
        LET i == find_first_not_of(in, delimiters, i0)
        IN  IF i = npos THEN container
            ELSE
                LET j == find_first_of(in, delimiters, i)
                IN  IF j = npos
                    THEN Append(container, SubSeq(in, i + 1, Len(in)))
                    ELSE stringtok_loop(Append(container, SubSeq(in, i + 1, j)),
                                        in, delimiters, j + 1)

stringtok(container, in, delimiters) == stringtok_loop(container, in, delimiters, 0)

\* scan_path going on after a hit, so that the last hit stands
RECURSIVE scan_path_last(_, _, _)
scan_path_last(c, ls, i) ==
    IF i > Len(ls)
    THEN Throw(c, "Can't find gnuplot neither in PATH nor in \""
                  \o c.m_sGNUPlotPath \o "\"")
    ELSE LET rest == scan_path_last(c, ls, i + 1)
         IN  IF Running(rest) THEN rest
             ELSE IF file_exists(c, ls[i] \o "/" \o m_sGNUPlotFileName, 1)
                  THEN [c EXCEPT !.m_sGNUPlotPath = ls[i]]
             ELSE rest

RECURSIVE scan_path(_, _, _)
scan_path(c, ls, i) ==
    IF i > Len(ls)
    THEN Throw(c, "Can't find gnuplot neither in PATH nor in \""
                  \o c.m_sGNUPlotPath \o "\"")
    ELSE IF file_exists(c, ls[i] \o "/" \o m_sGNUPlotFileName, 1)
         THEN [c EXCEPT !.m_sGNUPlotPath = ls[i]]
    ELSE scan_path(c, ls, i + 1)

\* returns true or throws: a context without exception stands for "true"
get_program_path(c) ==
    IF ~Running(c) THEN c
    ELSE IF file_exists(c, c.m_sGNUPlotPath \o "/" \o m_sGNUPlotFileName, 1) THEN c
    ELSE IF c.env.PATH = <<>> THEN Throw(c, "Path is not set")
    ELSE scan_path(c, stringtok(<<>>, c.env.PATH[1], ":"), 1)

---------------------------------------------------------------------------
\* Construction, teardown, resets and the in-session settings

\* init locating the plotter before it looks for DISPLAY
init_locate_first(c) ==
    LET p == get_program_path(c)
    IN  IF ~Running(p) THEN p
        ELSE IF ~c.env.DISPLAY
             THEN Throw([p EXCEPT !.g.valid = FALSE], "Can't find DISPLAY variable")
        ELSE IF ~p.env.popen_ok
             THEN Throw([p EXCEPT !.g.valid = FALSE],
                        "Couldn't open connection to gnuplot")
        ELSE
            LET o == Log([p EXCEPT !.g.gnucmd = "open"], "popen",
                         p.m_sGNUPlotPath \o "/" \o m_sGNUPlotFileName, "w")
            IN  showonscreen([o EXCEPT !.g.nplots = 0, !.g.valid = TRUE,
                                       !.g.smooth = ""])

init(c) ==
    IF ~c.env.DISPLAY
    THEN Throw([c EXCEPT !.g.valid = FALSE], "Can't find DISPLAY variable")
    ELSE
        LET p == get_program_path(c)
        IN  IF ~Running(p) THEN p
            ELSE IF ~p.env.popen_ok
                 THEN Throw([p EXCEPT !.g.valid = FALSE],
                            "Couldn't open connection to gnuplot")
            ELSE
                LET o == Log([p EXCEPT !.g.gnucmd = "open"], "popen",
                             p.m_sGNUPlotPath \o "/" \o m_sGNUPlotFileName, "w")
                IN  showonscreen([o EXCEPT !.g.nplots = 0, !.g.valid = TRUE,
                                           !.g.smooth = ""])

set_style(c, stylestr) ==
    IF ~Running(c) THEN c
    ELSE IF c.g.pstyle # stylestr /\ stylestr # ""
         THEN [c EXCEPT !.g.pstyle = stylestr]
    ELSE c

\* set_smooth accepting a token only as the whole argument
set_smooth_exact(c, stylestr) ==
    IF ~Running(c) THEN c
    ELSE IF stylestr \notin {"unique", "frequency", "csplines", "bezier"}
         THEN [c EXCEPT !.g.smooth = ""]
    ELSE [c EXCEPT !.g.smooth = stylestr]

set_smooth(c, stylestr) ==
    IF ~Running(c) THEN c
    ELSE IF /\ find(stylestr, "unique") = npos
            /\ find(stylestr, "frequency") = npos
            /\ find(stylestr, "csplines") = npos
            /\ find(stylestr, "bezier") = npos
         THEN [c EXCEPT !.g.smooth = ""]
    ELSE [c EXCEPT !.g.smooth = stylestr]

unset_smooth(c) == [c EXCEPT !.g.smooth = ""]

\* Gnuplot::Gnuplot(const std::string &style)
Gnuplot_style(c, style) ==
    LET o == [c EXCEPT !.g = [NewObject EXCEPT !.life = "live"]]
        r == set_style(init(o), style)
    IN  IF Running(r) THEN r ELSE [r EXCEPT !.g.life = "invalid"]

reset_all(c) ==
    LET a == cmd(cmd([c EXCEPT !.g.nplots = 0], "reset"), "clear")
    IN  showonscreen([a EXCEPT !.g.pstyle = "points", !.g.smooth = ""])

\* replot without the test of nplots
replot_always(c) == cmd(c, "replot")

replot(c) == IF c.g.nplots > 0 THEN cmd(c, "replot") ELSE c

---------------------------------------------------------------------------
\* The plot emitters

\* verb2d without the test of two_dim
verb2d_anydim(c) == IF c.g.nplots > 0 THEN "replot " ELSE "plot "

\* the verb the 2D emitters start their command with
verb2d(c) == IF c.g.nplots > 0 /\ c.g.two_dim = TRUE THEN "replot " ELSE "plot "

\* the verb the 3D emitters start their command with
verb3d(c) == IF c.g.nplots > 0 /\ c.g.two_dim = FALSE THEN "replot " ELSE "splot "

plot_slope(c, a, b, title) ==
    cmd(c, verb2d(c) \o FmtDouble(a) \o " * x + " \o FmtDouble(b) \o " title \""
           \o (IF title = ""
               THEN "f(x) = " \o FmtDouble(a) \o " * x + " \o FmtDouble(b)
               ELSE title)
           \o "\" with " \o c.g.pstyle)

plot_equation(c, equation, title) ==
    cmd(c, verb2d(c) \o equation
           \o (IF title = "" THEN " notitle" ELSE " title \"" \o title \o "\"")
           \o " with " \o c.g.pstyle)

plot_equation3d(c, equation, title) ==
    cmd(c, verb3d(c) \o equation \o " title \""
           \o (IF title = "" THEN "f(x,y) = " \o equation ELSE title)
           \o "\" with " \o c.g.pstyle)

\* the clause of plotfile_x and plotfile_xy without the test of smooth
style_clause_nosmooth(c) == "with " \o c.g.pstyle

\* the clause plotfile_x and plotfile_xy end their command with
style_clause(c) ==
    IF c.g.smooth = "" THEN "with " \o c.g.pstyle ELSE "smooth " \o c.g.smooth

title_clause(title) ==
    IF title = "" THEN " notitle " ELSE " title \"" \o title \o "\" "

plotfile_x(c, filename, column, title) ==
    LET a == file_available(c, filename)
    IN  cmd(a, verb2d(a) \o "\"" \o filename \o "\" using " \o FmtNat(column)
               \o title_clause(title) \o style_clause(a))

\* plotfile_xy choosing its verb as the 3D emitters do
plotfile_xy_verb3d(c, filename, column_x, column_y, title) ==
    LET a == file_available(c, filename)
    IN  cmd(a, verb3d(a) \o "\"" \o filename \o "\" using "
               \o FmtNat(column_x) \o ":" \o FmtNat(column_y)
               \o title_clause(title) \o style_clause(a))

plotfile_xy(c, filename, column_x, column_y, title) ==
    LET a == file_available(c, filename)
    IN  cmd(a, verb2d(a) \o "\"" \o filename \o "\" using "
               \o FmtNat(column_x) \o ":" \o FmtNat(column_y)
               \o title_clause(title) \o style_clause(a))

plotfile_xy_err(c, filename, column_x, column_y, column_dy, title) ==
    LET a == file_available(c, filename)
    IN  cmd(a, verb2d(a) \o "\"" \o filename \o "\" using "
               \o FmtNat(column_x) \o ":" \o FmtNat(column_y) \o ":"
               \o FmtNat(column_dy) \o " with errorbars " \o title_clause(title))

plotfile_xyz(c, filename, column_x, column_y, column_z, title) ==
    LET a == file_available(c, filename)
    IN  cmd(a, verb3d(a) \o "\"" \o filename \o "\" using "
               \o FmtNat(column_x) \o ":" \o FmtNat(column_y) \o ":"
               \o FmtNat(column_z)
               \o (IF title = "" THEN " notitle with " \o a.g.pstyle
                   ELSE " title \"" \o title \o "\" with " \o a.g.pstyle))

---------------------------------------------------------------------------
\* The temp-file pool

\* mkstemp("/tmp/gnuplotiXXXXXX") returns a name that no existing file has.
\* Which one is not specified; the model takes the name made of the session
\* and of the number of files the session created before, which no file has.
mkstemp_name(c) ==
    "/tmp/gnuploti" \o FmtNat(100000 * c.self + Len(c.g.tmpfile_list))

\* the quota check of create_tmpfile
\* the quota test comparing with GP_MAX_TMP_FILES itself
quota_reached_at_max(c) == c.tmpfile_num = GP_MAX_TMP_FILES

\* the quota test with > in place of ==
quota_reached_above(c) == c.tmpfile_num > GP_MAX_TMP_FILES - 1

quota_reached(c) == c.tmpfile_num = GP_MAX_TMP_FILES - 1

\* std::ofstream::open sets failbit, not badbit, when it fails: tmp.bad() is
\* false either way, and a stream with failbit set ignores what is written
create_tmpfile(c) ==
    IF ~Running(c) THEN c
    ELSE IF quota_reached(c)
         THEN Throw(c, "Maximum number of temporary files reached ("
                       \o FmtNat(GP_MAX_TMP_FILES) \o "): cannot open more files\n")
    ELSE IF ~c.env.mkstemp_ok
         THEN Throw(Log(c, "mkstemp", "", "-1"),
                    "Cannot create temporary file \"/tmp/gnuplotiXXXXXX\"")
    ELSE
        LET name == mkstemp_name(c)
            m == Log([c EXCEPT !.disk = @ \cup {name}], "mkstemp", name, "")
            o == Log([m EXCEPT !.tmp = IF m.env.open_ok THEN "open" ELSE "fail"],
                     "open", name, IF m.env.open_ok THEN "" ELSE "failbit")
        IN  [o EXCEPT !.g.tmpfile_list = Append(@, name),
                      !.tmpfile_num = @ + 1,
                      !.ret = name]

RECURSIVE remove_loop(_, _)
remove_loop(c, i) ==
    IF i > Len(c.g.tmpfile_list) THEN c
    ELSE IF c.g.tmpfile_list[i] \in c.disk /\ c.env.deny # i
         THEN remove_loop(Log([c EXCEPT !.disk = @ \ {c.g.tmpfile_list[i]}],
                              "remove", c.g.tmpfile_list[i], ""), i + 1)
    ELSE Throw(Log(c, "remove", c.g.tmpfile_list[i], "-1"),
               "Cannot remove temporary file \"" \o c.g.tmpfile_list[i] \o "\"")

\* remove_tmpfiles lowering the counter before it unlinks
remove_tmpfiles_count_first(c) ==
    IF Len(c.g.tmpfile_list) > 0
    THEN remove_loop([c EXCEPT !.tmpfile_num = @ - Len(c.g.tmpfile_list)], 1)
    ELSE c

remove_tmpfiles(c) ==
    IF Len(c.g.tmpfile_list) > 0
    THEN LET r == remove_loop(c, 1)
         IN  IF Running(r)
             THEN [r EXCEPT !.tmpfile_num = @ - Len(r.g.tmpfile_list)]
             ELSE r
    ELSE c

\* ~Gnuplot with the call of remove_tmpfiles that the source has commented out
Gnuplot_dtor_remove(c) ==
    LET r == remove_tmpfiles(c)
        p == Log([r EXCEPT !.g.gnucmd = "closed", !.g.life = "dead"],
                 "pclose", "", "")
    IN  IF ~Running(r) THEN r
        ELSE IF ~c.env.pclose_ok
             THEN Log(p, "cerr",
                      "Gnuplot::~Gnuplot: Problem closing communication to gnuplot", "")
        ELSE p

\* Gnuplot::~Gnuplot
Gnuplot_dtor(c) ==
    LET p == Log([c EXCEPT !.g.gnucmd = "closed", !.g.life = "dead"],
                 "pclose", "", "")
    IN  IF ~c.env.pclose_ok
        THEN Log(p, "cerr",
                 "Gnuplot::~Gnuplot: Problem closing communication to gnuplot", "")
        ELSE p

\* reset_plot with the call of remove_tmpfiles that the source has commented out
reset_plot_remove(c) ==
    LET r == remove_tmpfiles(c)
    IN  IF Running(r) THEN [r EXCEPT !.g.nplots = 0] ELSE r

reset_plot(c) == [c EXCEPT !.g.nplots = 0]

---------------------------------------------------------------------------
\* The data materialiser

\* tmp << row << std::endl for every row, then tmp.flush() and tmp.close()
\* write_rows leaving the file open
write_rows_noclose(c, rows) ==
    IF ~Running(c) THEN c
    ELSE
        LET w == IF c.tmp = "open"
                 THEN [c EXCEPT !.ev = @ \o [i \in 1..Len(rows) |->
                                              <<"write", c.ret, rows[i] \o "\n">>]]
                 ELSE c
        IN  Log(w, "flush", c.ret, "")

write_rows(c, rows) ==
    IF ~Running(c) THEN c
    ELSE
        LET w == IF c.tmp = "open"
                 THEN [c EXCEPT !.ev = @ \o [i \in 1..Len(rows) |->
                                              <<"write", c.ret, rows[i] \o "\n">>]]
                 ELSE c
        IN  Log(Log([w EXCEPT !.tmp = "closed"], "flush", c.ret, ""),
                "close", c.ret, "")

plot_x(c, x, title) ==
    IF Len(x) = 0 THEN Throw(c, "std::vector too small")
    ELSE
        LET t == create_tmpfile(c)
            w == write_rows(t, [i \in 1..Len(x) |-> FmtDouble(x[i])])
        IN  IF ~Running(w) THEN w ELSE plotfile_x(w, w.ret, 1, title)

\* plot_xy writing each row as y[i] then x[i]
plot_xy_swapped(c, x, y, title) ==
    IF Len(x) = 0 \/ Len(y) = 0 THEN Throw(c, "std::vectors too small")
    ELSE IF Len(x) # Len(y) THEN Throw(c, "Length of the std::vectors differs")
    ELSE
        LET t == create_tmpfile(c)
            w == write_rows(t, [i \in 1..Len(x) |->
                                  FmtDouble(y[i]) \o " " \o FmtDouble(x[i])])
        IN  IF ~Running(w) THEN w ELSE plotfile_xy(w, w.ret, 1, 2, title)

plot_xy(c, x, y, title) ==
    IF Len(x) = 0 \/ Len(y) = 0 THEN Throw(c, "std::vectors too small")
    ELSE IF Len(x) # Len(y) THEN Throw(c, "Length of the std::vectors differs")
    ELSE
        LET t == create_tmpfile(c)
            w == write_rows(t, [i \in 1..Len(x) |->
                                  FmtDouble(x[i]) \o " " \o FmtDouble(y[i])])
        IN  IF ~Running(w) THEN w ELSE plotfile_xy(w, w.ret, 1, 2, title)

plot_xy_err(c, x, y, dy, title) ==
    IF Len(x) = 0 \/ Len(y) = 0 \/ Len(dy) = 0
    THEN Throw(c, "std::vectors too small")
    ELSE IF Len(x) # Len(y) \/ Len(y) # Len(dy)
         THEN Throw(c, "Length of the std::vectors differs")
    ELSE
        LET t == create_tmpfile(c)
            w == write_rows(t, [i \in 1..Len(x) |->
                                  FmtDouble(x[i]) \o " " \o FmtDouble(y[i])
                                  \o " " \o FmtDouble(dy[i])])
        IN  IF ~Running(w) THEN w ELSE plotfile_xy_err(w, w.ret, 1, 2, 3, title)

\* plot_xyz comparing the length of x with that of y only
plot_xyz_xy_only(c, x, y, z, title) ==
    IF Len(x) = 0 \/ Len(y) = 0 \/ Len(z) = 0
    THEN Throw(c, "std::vectors too small")
    ELSE IF Len(x) # Len(y)
         THEN Throw(c, "Length of the std::vectors differs")
    ELSE
        LET t == create_tmpfile(c)
            w == write_rows(t, [i \in 1..Len(x) |->
                                  FmtDouble(x[i]) \o " " \o FmtDouble(y[i])
                                  \o " " \o FmtDouble(IF i <= Len(z) THEN z[i] ELSE 0)])
        IN  IF ~Running(w) THEN w ELSE plotfile_xyz(w, w.ret, 1, 2, 3, title)

plot_xyz(c, x, y, z, title) ==
    IF Len(x) = 0 \/ Len(y) = 0 \/ Len(z) = 0
    THEN Throw(c, "std::vectors too small")
    ELSE IF Len(x) # Len(y) \/ Len(x) # Len(z)
         THEN Throw(c, "Length of the std::vectors differs")
    ELSE
        LET t == create_tmpfile(c)
            w == write_rows(t, [i \in 1..Len(x) |->
                                  FmtDouble(x[i]) \o " " \o FmtDouble(y[i])
                                  \o " " \o FmtDouble(z[i])])
        IN  IF ~Running(w) THEN w ELSE plotfile_xyz(w, w.ret, 1, 2, 3, title)

\* ucPicBuf holds iWidth * iHeight bytes, row after row
plot_image(c, ucPicBuf, iWidth, iHeight, title) ==
    LET t == create_tmpfile(c)
        w == write_rows(t, [k \in 1..(iWidth * iHeight) |->
                              FmtNat((k - 1) % iWidth) \o " "
                              \o FmtNat((k - 1) \div iWidth) \o " "
                              \o FmtNat(ucPicBuf[k])])
    IN  IF ~Running(w) THEN w
        ELSE cmd(w, verb2d(w) \o "\"" \o w.ret
                    \o (IF title = "" THEN "\" with image"
                        ELSE "\" title \"" \o title \o "\" with image"))

---------------------------------------------------------------------------
\* The setters that format one directive and submit it through cmd

savetofigure(c, filename, terminal) ==
    cmd(cmd(c, "set terminal " \o terminal), "set output \"" \o filename \o "\"")

set_legend(c, position) == cmd(c, "set key " \o position)

set_title(c, title) == cmd(c, "set title \"" \o title \o "\"")

set_contour(c, position) ==
    IF /\ find(position, "base") = npos
       /\ find(position, "surface") = npos
       /\ find(position, "both") = npos
    THEN cmd(c, "set contour base")
    ELSE cmd(c, "set contour " \o position)

\* set_xlabel, set_ylabel, set_zlabel
set_label(c, axis, label) == cmd(c, "set " \o axis \o "label \"" \o label \o "\"")

\* set_xrange, set_yrange, set_zrange, set_cbrange
set_range(c, axis, iFrom, iTo) ==
    cmd(c, "set " \o axis \o "range[" \o FmtDouble(iFrom) \o ":"
           \o FmtDouble(iTo) \o "]")

\* set_xautoscale, set_yautoscale, set_zautoscale
set_autoscale(c, axis) ==
    cmd(cmd(c, "set " \o axis \o "range restore"), "set autoscale " \o axis)

\* set_xlogscale, set_ylogscale, set_zlogscale
set_logscale(c, axis, base) ==
    cmd(c, "set logscale " \o axis \o " " \o FmtDouble(base))

\* unset_xlogscale, unset_ylogscale, unset_zlogscale
unset_logscale(c, axis) == cmd(c, "unset logscale " \o axis)

set_pointsize(c, pointsize) == cmd(c, "set pointsize " \o FmtDouble(pointsize))

set_samples(c, samples) == cmd(c, "set samples " \o FmtDouble(samples))

set_isosamples(c, isolines) == cmd(c, "set isosamples " \o FmtDouble(isolines))

\* the setters without argument: each submits one fixed directive
FixedSetters ==
    [set_grid |-> "set grid", unset_grid |-> "unset grid",
     set_multiplot |-> "set multiplot", unset_multiplot |-> "unset multiplot",
     set_hidden3d |-> "set hidden3d", unset_hidden3d |-> "unset hidden3d",
     unset_contour |-> "unset contour",
     set_surface |-> "set surface", unset_surface |-> "unset surface",
     unset_legend |-> "unset key"]

fixed_setter(c, name) == cmd(c, FixedSetters[name])

unset_title(c) == set_title(c, "")

---------------------------------------------------------------------------
\* Inputs of the calls

Styles == {"points", "lines", ""}

Smooths == {"csplines", "step"}

\* arguments of set_smooth: each accepted token, a mode that contains one,
\* a mode that contains none, and the empty string
SmoothArgs == {"unique", "frequency", "csplines", "bezier", "acsplines", "step", ""}

Titles == {"", "t"}

Equations == {"x**2", "sin(x)*cos(y)"}

\* command texts for cmd: each of the three verbs, a directive without a
\* verb, and texts that hold one verb inside another text
CmdTexts ==
    {"plot x", "splot x*y", "replot", "set grid", "set multiplot",
     "splot x title \"replot\"", "plot x title \"splot\""}

\* data sequences: an empty one and two of different lengths
Vecs == {<<>>, <<7>>, <<1, 2>>}

Pairs == (Vecs \X Vecs) \cup {<<<<1, 2>>, <<-3, 4>>>>}

\* triples: all empty, one empty, one of another length (at each place), and
\* equal lengths
Triples ==
    {<<<<>>, <<>>, <<>>>>,
     <<<<>>, <<7>>, <<7>>>>, <<<<7>>, <<>>, <<7>>>>, <<<<7>>, <<7>>, <<>>>>,
     <<<<1, 2>>, <<7>>, <<7>>>>, <<<<7>>, <<1, 2>>, <<7>>>>, <<<<7>>, <<7>>, <<1, 2>>>>,
     <<<<7>>, <<7>>, <<7>>>>, <<<<1, 2>>, <<1, 2>>, <<1, 2>>>>,
     <<<<1, 2>>, <<-3, 4>>, <<5, 6>>>>}

Files == {"data.dat", "secret.dat", "missing.dat"}

Axes == {"x", "y", "z"}

\* a 2 x 1 picture
Picture == <<0, 255>>

NoDisplay == [DefaultEnv EXCEPT !.DISPLAY = FALSE]

NoProgram == [DefaultEnv EXCEPT !.exe = {}]

NoPath == [DefaultEnv EXCEPT !.exe = {}, !.PATH = <<>>]

NoPipe == [DefaultEnv EXCEPT !.popen_ok = FALSE]

Envs == {DefaultEnv, NoDisplay, NoProgram, NoPath, NoPipe}

\* a session on which member functions can be called: a constructed one, or
\* one whose constructor threw and left valid = false
Callable(s) == gp[s].life \in {"live", "invalid"}

Holds(s) == Len(gp[s].tmpfile_list)

---------------------------------------------------------------------------
\* Actions: one public operation on session s each

Construct(s, envs, styles) ==
    /\ gp[s].life = "none"
    /\ \E env \in envs, style \in styles :
          Leave(s, "Gnuplot", <<style, env>>, Gnuplot_style(Enter(s, env), style))

Destroy(s) ==
    /\ gp[s].life = "live"
    /\ \E ok \in BOOLEAN :
          Leave(s, "~Gnuplot", <<>>,
                Gnuplot_dtor(Enter(s, [DefaultEnv EXCEPT !.pclose_ok = ok])))

Cmd(s) ==
    /\ Callable(s)
    /\ \E cmdstr \in CmdTexts :
          Leave(s, "cmd", <<cmdstr>>, cmd(Enter(s, DefaultEnv), cmdstr))

Replot(s) ==
    /\ Callable(s)
    /\ Leave(s, "replot", <<>>, replot(Enter(s, DefaultEnv)))

ResetPlot(s) ==
    /\ Callable(s)
    /\ Leave(s, "reset_plot", <<>>, reset_plot(Enter(s, DefaultEnv)))

ResetAll(s) ==
    /\ Callable(s)
    /\ Leave(s, "reset_all", <<>>, reset_all(Enter(s, DefaultEnv)))

SetStyle(s) ==
    /\ Callable(s)
    /\ \E stylestr \in Styles :
          Leave(s, "set_style", <<stylestr>>,
                set_style(Enter(s, DefaultEnv), stylestr))

SetSmooth(s, smooths) ==
    /\ Callable(s)
    /\ \E stylestr \in smooths :
          Leave(s, "set_smooth", <<stylestr>>,
                set_smooth(Enter(s, DefaultEnv), stylestr))

UnsetSmooth(s) ==
    /\ Callable(s)
    /\ Leave(s, "unset_smooth", <<>>, unset_smooth(Enter(s, DefaultEnv)))

FixedSetter(s) ==
    /\ Callable(s)
    /\ \E name \in DOMAIN FixedSetters :
          Leave(s, name, <<>>, fixed_setter(Enter(s, DefaultEnv), name))

TextSetter(s) ==
    /\ Callable(s)
    /\ LET c == Enter(s, DefaultEnv)
       IN  \/ \E t \in Titles : Leave(s, "set_title", <<t>>, set_title(c, t))
           \/ Leave(s, "unset_title", <<>>, unset_title(c))
           \/ \E a \in Axes :
                 Leave(s, "set_" \o a \o "label", <<"lbl">>, set_label(c, a, "lbl"))
           \/ \E pos \in {"default", "outside"} :
                 Leave(s, "set_legend", <<pos>>, set_legend(c, pos))
           \/ \E pos \in {"base", "both", "top"} :
                 Leave(s, "set_contour", <<pos>>, set_contour(c, pos))
           \/ \E f \in {"fig.ps", "plot.ps"}, t \in {"ps", "unixplot"} :
                 Leave(s, "savetofigure", <<f, t>>, savetofigure(c, f, t))
           \/ Leave(s, "showonscreen", <<>>, showonscreen(c))

NumberSetter(s) ==
    /\ Callable(s)
    /\ LET c == Enter(s, DefaultEnv)
       IN  \/ \E a \in Axes \cup {"cb"} :
                 Leave(s, "set_" \o a \o "range", <<-1, 10>>, set_range(c, a, -1, 10))
           \/ \E a \in Axes :
                 Leave(s, "set_" \o a \o "autoscale", <<>>, set_autoscale(c, a))
           \/ \E a \in Axes :
                 Leave(s, "set_" \o a \o "logscale", <<10>>, set_logscale(c, a, 10))
           \/ \E a \in Axes :
                 Leave(s, "unset_" \o a \o "logscale", <<>>, unset_logscale(c, a))
           \/ Leave(s, "set_pointsize", <<2>>, set_pointsize(c, 2))
           \/ Leave(s, "set_samples", <<100>>, set_samples(c, 100))
           \/ Leave(s, "set_isosamples", <<10>>, set_isosamples(c, 10))

PlotSlope(s) ==
    /\ Callable(s)
    /\ \E title \in Titles :
          Leave(s, "plot_slope", <<2, -1, title>>,
                plot_slope(Enter(s, DefaultEnv), 2, -1, title))

PlotEquation(s) ==
    /\ Callable(s)
    /\ \E title \in Titles :
          Leave(s, "plot_equation", <<"x**2", title>>,
                plot_equation(Enter(s, DefaultEnv), "x**2", title))

PlotEquation3d(s) ==
    /\ Callable(s)
    /\ \E title \in Titles :
          Leave(s, "plot_equation3d", <<"sin(x)*cos(y)", title>>,
                plot_equation3d(Enter(s, DefaultEnv), "sin(x)*cos(y)", title))

PlotfileX(s) ==
    /\ Callable(s)
    /\ \E filename \in Files, title \in Titles :
          Leave(s, "plotfile_x", <<filename, 1, title>>,
                plotfile_x(Enter(s, DefaultEnv), filename, 1, title))

PlotfileXY(s) ==
    /\ Callable(s)
    /\ \E filename \in Files, title \in Titles :
          Leave(s, "plotfile_xy", <<filename, 1, 2, title>>,
                plotfile_xy(Enter(s, DefaultEnv), filename, 1, 2, title))

PlotfileXYErr(s) ==
    /\ Callable(s)
    /\ \E filename \in Files, title \in Titles :
          Leave(s, "plotfile_xy_err", <<filename, 1, 2, 3, title>>,
                plotfile_xy_err(Enter(s, DefaultEnv), filename, 1, 2, 3, title))

PlotfileXYZ(s) ==
    /\ Callable(s)
    /\ \E filename \in Files, title \in Titles :
          Leave(s, "plotfile_xyz", <<filename, 1, 2, 3, title>>,
                plotfile_xyz(Enter(s, DefaultEnv), filename, 1, 2, 3, title))

\* the outcomes of mkstemp and of std::ofstream::open
AllocEnvs ==
    {DefaultEnv, [DefaultEnv EXCEPT !.mkstemp_ok = FALSE],
     [DefaultEnv EXCEPT !.open_ok = FALSE]}

PlotX(s, envs, vecs) ==
    /\ Callable(s)
    /\ \E env \in envs, x \in vecs :
          Leave(s, "plot_x", <<x, "">>, plot_x(Enter(s, env), x, ""))

PlotXY(s, envs, pairs) ==
    /\ Callable(s)
    /\ \E env \in envs, d \in pairs :
          Leave(s, "plot_xy", <<d[1], d[2], "">>,
                plot_xy(Enter(s, env), d[1], d[2], ""))

PlotXYErr(s, envs, triples) ==
    /\ Callable(s)
    /\ \E env \in envs, d \in triples :
          Leave(s, "plot_xy_err", <<d[1], d[2], d[3], "">>,
                plot_xy_err(Enter(s, env), d[1], d[2], d[3], ""))

PlotXYZ(s, envs, triples) ==
    /\ Callable(s)
    /\ \E env \in envs, d \in triples :
          Leave(s, "plot_xyz", <<d[1], d[2], d[3], "">>,
                plot_xyz(Enter(s, env), d[1], d[2], d[3], ""))

PlotImage(s, envs) ==
    /\ Callable(s)
    /\ \E env \in envs, title \in Titles :
          Leave(s, "plot_image", <<Picture, 2, 1, title>>,
                plot_image(Enter(s, env), Picture, 2, 1, title))

\* env.deny is the position in tmpfile_list of the file the system refuses
\* to remove (0: it refuses none); a file that is gone cannot be removed
\* denies: the positions in the list at which the unlink may fail for a reason
\* outside the program (0: at none)
RemoveTmpfiles(s, denies) ==
    /\ Callable(s)
    /\ \E deny \in denies :
          Leave(s, "remove_tmpfiles", <<>>,
                remove_tmpfiles(Enter(s, [DefaultEnv EXCEPT !.deny = deny])))

---------------------------------------------------------------------------
\* The static settings, the data constructor, and their calls

\* a call of a static member function: no object is involved
EnterStatic(env) ==
    [self |-> 0, g |-> NewObject, tmpfile_num |-> tmpfile_num,
     m_sGNUPlotPath |-> m_sGNUPlotPath, terminal_std |-> terminal_std,
     disk |-> disk, env |-> env, tmp |-> "closed", ret |-> "",
     ev |-> <<>>, exc |-> ""]

LeaveStatic(name, args, c) ==
    /\ gp' = gp
    /\ thr' = thr
    /\ drawn' = drawn
    /\ tmpfile_num' = c.tmpfile_num
    /\ m_sGNUPlotPath' = c.m_sGNUPlotPath
    /\ terminal_std' = c.terminal_std
    /\ disk' = c.disk
    /\ ev' = c.ev
    /\ last' = [op |-> name, s |-> 0, args |-> args, exc |-> c.exc]

\* set_GNUPlotPath keeping the directory when the check fails
set_GNUPlotPath_keep(c, path) ==
    IF file_exists(c, path \o "/" \o m_sGNUPlotFileName, 1)
    THEN Log([c EXCEPT !.m_sGNUPlotPath = path], "return", "true", "")
    ELSE Log(c, "return", "false", "")

\* the bool a function returns is logged as its last event
set_GNUPlotPath(c, path) ==
    IF file_exists(c, path \o "/" \o m_sGNUPlotFileName, 1)
    THEN Log([c EXCEPT !.m_sGNUPlotPath = path], "return", "true", "")
    ELSE Log([c EXCEPT !.m_sGNUPlotPath = ""], "return", "false", "")

set_terminal_std(c, type) ==
    IF find(type, "x11") # npos /\ ~c.env.DISPLAY
    THEN Throw(c, "Can't find DISPLAY variable")
    ELSE [c EXCEPT !.terminal_std = type]

\* Gnuplot(x, title, style, labelx, labely).  When the constructor throws,
\* the object never comes to exist and its destructor is not run: life is
\* "invalid" when init threw, "failed" when a later statement threw.
Gnuplot_x(c, x, title, style, labelx, labely) ==
    LET o == [c EXCEPT !.g = [NewObject EXCEPT !.life = "live"]]
        i == init(o)
        l == set_label(set_label(set_style(i, style), "x", labelx), "y", labely)
        r == IF Running(i) THEN plot_x(l, x, title) ELSE i
    IN  IF Running(r) THEN r
        ELSE IF ~Running(i) THEN [r EXCEPT !.g.life = "invalid"]
        ELSE [r EXCEPT !.g.life = "failed"]

\* environments for locating the plotter: found in the second PATH entry,
\* in both entries, behind empty PATH entries, in the configured directory
\* with PATH unset, in no entry of an empty PATH, and in PATH without DISPLAY
OnPath == [DefaultEnv EXCEPT !.exe = {"/usr/bin"}]

OnPathTwice == [DefaultEnv EXCEPT !.exe = {"/bin", "/usr/bin"}]

OddPath ==
    [DefaultEnv EXCEPT !.PATH = <<":/opt/gp/bin::/usr/bin:">>,
                       !.exe = {"/opt/gp/bin", "/usr/bin"}]

HereNoPath == [DefaultEnv EXCEPT !.PATH = <<>>]

EmptyPath == [DefaultEnv EXCEPT !.PATH = <<"">>, !.exe = {}]

NoDisplayOnPath == [DefaultEnv EXCEPT !.DISPLAY = FALSE, !.exe = {"/usr/bin"}]

NoPipeOnPath == [DefaultEnv EXCEPT !.popen_ok = FALSE, !.exe = {"/usr/bin"}]

LifeEnvs ==
    Envs \cup {OnPath, OnPathTwice, OddPath, HereNoPath, EmptyPath,
               NoDisplayOnPath, NoPipeOnPath}

PlotterDirs == {"/usr/bin", "/usr/local/bin/", "/nonexistent"}

\* terminal types: two screen terminals and the plotter's "unixplot"
TerminalTypes == {"x11", "wxt", "unixplot"}

SetGNUPlotPath ==
    \E env \in {DefaultEnv, OnPath}, path \in PlotterDirs :
        LeaveStatic("set_GNUPlotPath", <<path, env>>,
                    set_GNUPlotPath(EnterStatic(env), path))

SetTerminalStd ==
    \E env \in {DefaultEnv, NoDisplay}, type \in TerminalTypes :
        LeaveStatic("set_terminal_std", <<type, env>>,
                    set_terminal_std(EnterStatic(env), type))

ConstructX(s, envs, vecs) ==
    /\ gp[s].life = "none"
    /\ \E env \in envs, x \in vecs :
          Leave(s, "Gnuplot(x)", <<x, env>>,
                Gnuplot_x(Enter(s, env), x, "", "points", "x", "y"))

---------------------------------------------------------------------------
\* Specifications

Init ==
    /\ gp = [s \in Sess |-> NewObject]
    /\ tmpfile_num = 0
    /\ m_sGNUPlotPath = "/usr/local/bin/"
    /\ terminal_std = "x11"
    /\ disk = UserFiles
    /\ ev = <<>>
    /\ last = [op |-> "", s |-> 0, args |-> <<>>, exc |-> ""]
    /\ drawn = [s \in Sess |-> {}]
    /\ thr = [s \in Sess |-> [pc |-> "idle", seen |-> 0, reg |-> 0, delta |-> 0]]

\* the session Spec drives
Solo == {1}

\* Spec: the operations that read or change the plot-mode state and the temp
\* files, on one session that holds at most MaxFiles temp files
Next ==
    \E s \in Solo :
        \/ Construct(s, Envs, {"points"})
        \/ Destroy(s)
        \/ Cmd(s)
        \/ Replot(s)
        \/ ResetPlot(s)
        \/ ResetAll(s)
        \/ PlotSlope(s)
        \/ PlotEquation(s)
        \/ PlotEquation3d(s)
        \/ PlotfileX(s)
        \/ PlotfileXY(s)
        \/ PlotfileXYErr(s)
        \/ PlotfileXYZ(s)
        \/ Holds(s) < MaxFiles /\ PlotX(s, AllocEnvs, Vecs)
        \/ Holds(s) < MaxFiles /\ PlotXY(s, AllocEnvs, Pairs)
        \/ Holds(s) < MaxFiles /\ PlotXYErr(s, {DefaultEnv}, Triples)
        \/ Holds(s) < MaxFiles /\ PlotXYZ(s, {DefaultEnv}, Triples)
        \/ Holds(s) < MaxFiles /\ PlotImage(s, AllocEnvs)

Spec == Init /\ [][Next]_vars

\* SpecSetters: the setters, with cmd and two emitters, on one session
NextSetters ==
    \E s \in Solo :
        \/ Construct(s, Envs, {"points"})
        \/ Destroy(s)
        \/ Cmd(s)
        \/ Replot(s)
        \/ ResetPlot(s)
        \/ ResetAll(s)
        \/ SetStyle(s)
        \/ SetSmooth(s, Smooths)
        \/ UnsetSmooth(s)
        \/ FixedSetter(s)
        \/ TextSetter(s)
        \/ NumberSetter(s)
        \/ PlotSlope(s)
        \/ PlotEquation(s)
        \/ PlotEquation3d(s)

SpecSetters == Init /\ [][NextSetters]_vars

\* the session that may fill the pool in SpecPool
Filler == {1}

\* SpecPool: the temp-file pool shared by all sessions.  Every session is
\* constructed, plots data, removes its temp files and is destroyed; the
\* filler may go on allocating until the quota stops it.
NextPool ==
    \E s \in Sess :
        \/ Construct(s, {DefaultEnv}, {"points"})
        \/ Destroy(s)
        \/ (s \in Filler \/ Holds(s) < MaxList) /\ PlotX(s, {DefaultEnv}, {<<7>>})
        \/ Holds(s) <= MaxList /\ RemoveTmpfiles(s, 0..Holds(s))

SpecPool == Init /\ [][NextPool]_vars

\* SpecQuota: one session allocates up to the quota and removes its temp
\* files, whatever their number
NextQuota ==
    \E s \in Solo :
        \/ Construct(s, {DefaultEnv}, {"points"})
        \/ Holds(s) < MaxHeld /\ PlotX(s, {DefaultEnv}, {<<7>>})
        \/ RemoveTmpfiles(s, 0..Holds(s))

SpecQuota == Init /\ [][NextQuota]_vars

\* SpecLocate: the configured directory is set, and sessions are constructed
\* in every environment, used and destroyed
NextLocate ==
    \/ SetGNUPlotPath
    \/ \E s \in Sess :
          \/ Construct(s, LifeEnvs, {"points"})
          \/ Destroy(s)
          \/ s \in Solo /\ Cmd(s)

SpecLocate == Init /\ [][NextLocate]_vars

\* SpecLife: one session from construction, by either constructor and with
\* any default terminal, through plots, settings and resets to teardown
NextLife ==
    \/ SetTerminalStd
    \/ \E s \in Solo :
          \/ Construct(s, Envs, {"points"})
          \/ ConstructX(s, {DefaultEnv, NoDisplay}, Vecs)
          \/ Destroy(s)
          \/ Cmd(s)
          \/ SetStyle(s)
          \/ SetSmooth(s, Smooths)
          \/ ResetAll(s)
          \/ Holds(s) < MaxFiles /\ PlotX(s, {DefaultEnv}, {<<7>>})

SpecLife == Init /\ [][NextLife]_vars

\* one session built with every style argument: styles, smoothing, resets
\* and the emitters that write a style or smoothing clause
NextStyle ==
    \E s \in Solo :
        \/ Construct(s, {DefaultEnv}, Styles)
        \/ Destroy(s)
        \/ SetStyle(s)
        \/ SetSmooth(s, SmoothArgs)
        \/ UnsetSmooth(s)
        \/ ResetPlot(s)
        \/ ResetAll(s)
        \/ PlotSlope(s)
        \/ PlotEquation(s)
        \/ PlotEquation3d(s)
        \/ PlotfileX(s)
        \/ PlotfileXY(s)
        \/ PlotfileXYErr(s)
        \/ PlotfileXYZ(s)

SpecStyle == Init /\ [][NextStyle]_vars

\* two sessions that plot data and remove their temp files, every unlink of
\* an existing file succeeding
NextReuse ==
    \E s \in Sess :
        \/ Construct(s, {DefaultEnv}, {"points"})
        \/ Holds(s) < MaxFiles /\ PlotX(s, {DefaultEnv}, {<<7>>})
        \/ Holds(s) < MaxFiles /\ PlotXY(s, {DefaultEnv}, {<<<<1, 2>>, <<-3, 4>>>>})
        \/ RemoveTmpfiles(s, {0})

SpecReuse == Init /\ [][NextReuse]_vars

---------------------------------------------------------------------------
\* Calls of two sessions that overlap.  The class has no lock, so a call of
\* create_tmpfile or remove_tmpfiles by one session can run between any two
\* accesses to the static counter made by a call of the other.  A call is
\* taken in three steps: the part up to the counter update (in
\* create_tmpfile: the quota test, which reads the counter, mkstemp, open and
\* push_back; in remove_tmpfiles: the unlink loop), the read of the counter
\* and the write of the updated value.

\* create_tmpfile up to tmpfile_list.push_back(name)
AllocBegin(s) ==
    /\ Callable(s)
    /\ thr[s].pc = "idle"
    /\ LET t == create_tmpfile(Enter(s, DefaultEnv))
       IN  /\ gp' = [gp EXCEPT ![s] = t.g]
           /\ disk' = t.disk
           /\ ev' = t.ev
           /\ last' = [op |-> "create_tmpfile", s |-> s, args |-> <<>>, exc |-> t.exc]
           /\ thr' = [thr EXCEPT ![s] =
                         IF Running(t)
                         THEN [pc |-> "load", seen |-> tmpfile_num, reg |-> @.reg,
                               delta |-> 1]
                         ELSE @]
    /\ UNCHANGED <<tmpfile_num, m_sGNUPlotPath, terminal_std, drawn>>

\* remove_tmpfiles up to the end of its loop
UnlinkAll(s) ==
    /\ Callable(s)
    /\ thr[s].pc = "idle"
    /\ Len(gp[s].tmpfile_list) > 0
    /\ LET r == remove_loop(Enter(s, DefaultEnv), 1)
       IN  /\ disk' = r.disk
           /\ ev' = r.ev
           /\ last' = [op |-> "remove_tmpfiles", s |-> s, args |-> <<>>, exc |-> r.exc]
           /\ thr' = [thr EXCEPT ![s] =
                         IF Running(r)
                         THEN [pc |-> "load", seen |-> @.seen, reg |-> @.reg,
                               delta |-> 0 - Len(gp[s].tmpfile_list)]
                         ELSE @]
    /\ UNCHANGED <<gp, tmpfile_num, m_sGNUPlotPath, terminal_std, drawn>>

\* tmpfile_num++ and tmpfile_num -= size: the read
CounterLoad(s) ==
    /\ thr[s].pc = "load"
    /\ thr' = [thr EXCEPT ![s].pc = "store", ![s].reg = tmpfile_num]
    /\ UNCHANGED <<gp, tmpfile_num, m_sGNUPlotPath, terminal_std, disk, ev, last, drawn>>

\* the update done on the counter as it is at the time of the write
CounterStore_atomic(s) ==
    /\ thr[s].pc = "store"
    /\ tmpfile_num' = tmpfile_num + thr[s].delta
    /\ thr' = [thr EXCEPT ![s].pc = "idle"]
    /\ UNCHANGED <<gp, m_sGNUPlotPath, terminal_std, disk, ev, last, drawn>>

\* tmpfile_num++ and tmpfile_num -= size: the write
CounterStore(s) ==
    /\ thr[s].pc = "store"
    /\ tmpfile_num' = thr[s].reg + thr[s].delta
    /\ thr' = [thr EXCEPT ![s].pc = "idle"]
    /\ UNCHANGED <<gp, m_sGNUPlotPath, terminal_std, disk, ev, last, drawn>>

\* SpecRace: two sessions whose calls overlap.  Before the second session
\* exists the filler may bring the counter near the quota by whole calls;
\* overlapping calls are explored while a session's list is short and, for
\* the filler, from GP_MAX_TMP_FILES - 2 files on.
NextRace ==
    \E s \in Sess :
        \/ Construct(s, {DefaultEnv}, {"points"})
        \/ /\ s \in Filler
           /\ \A t \in Sess \ {s} : gp[t].life = "none"
           /\ Holds(s) < GP_MAX_TMP_FILES - 2
           /\ PlotX(s, {DefaultEnv}, {<<7>>})
        \/ /\ Holds(s) < MaxList \/ (s \in Filler /\ Holds(s) >= GP_MAX_TMP_FILES - 2)
           /\ Holds(s) < MaxHeld
           /\ AllocBegin(s)
        \/ Holds(s) <= MaxList /\ UnlinkAll(s)
        \/ CounterLoad(s)
        \/ CounterStore(s)

SpecRace == Init /\ [][NextRace]_vars

---------------------------------------------------------------------------
\* What a call wrote to the pipe, read from its events

\* the lines the call handed to fputs, in order
RECURSIVE LinesOf(_)
LinesOf(e) ==
    IF e = <<>> THEN <<>>
    ELSE IF e[1][1] = "fputs" THEN <<e[1][2]>> \o LinesOf(Tail(e))
    ELSE LinesOf(Tail(e))

Contains(s, p) == find(s, p) # npos

Emitters2d ==
    {"plotfile_x", "plotfile_xy", "plotfile_xy_err", "plot_slope",
     "plot_equation", "plot_image"}

Emitters3d == {"plotfile_xyz", "plot_equation3d"}

---------------------------------------------------------------------------
\* C1 (as amended): after cmd(s) on a valid session, if s contains "replot"
\* neither two_dim nor nplots has changed; otherwise if s contains "splot"
\* two_dim is false and nplots has increased by one; otherwise if s contains
\* "plot" two_dim is true and nplots has increased by one.
C1_CmdPlotMode ==
    [][(last'.op = "cmd" /\ gp[last'.s].valid) =>
        LET s == last'.args[1]
            g == gp[last'.s]
            h == gp'[last'.s]
        IN  /\ Contains(s, "replot") =>
                  h.two_dim = g.two_dim /\ h.nplots = g.nplots
            /\ Contains(s, "splot") /\ ~Contains(s, "replot") =>
                  h.two_dim = FALSE /\ h.nplots = g.nplots + 1
            /\ Contains(s, "plot") /\ ~Contains(s, "splot")
                                   /\ ~Contains(s, "replot") =>
                  h.two_dim = TRUE /\ h.nplots = g.nplots + 1]_vars

\* C1 as stated: every s that contains "splot" makes the plot 3D and counts
C1_AsStated ==
    [][(last'.op = "cmd" /\ gp[last'.s].valid) =>
        LET s == last'.args[1]
            g == gp[last'.s]
            h == gp'[last'.s]
        IN  /\ Contains(s, "splot") =>
                  h.two_dim = FALSE /\ h.nplots = g.nplots + 1
            /\ Contains(s, "plot") /\ ~Contains(s, "splot")
                                   /\ ~Contains(s, "replot") =>
                  h.two_dim = TRUE /\ h.nplots = g.nplots + 1
            /\ Contains(s, "replot") =>
                  h.two_dim = g.two_dim /\ h.nplots = g.nplots]_vars

\* a cmd whose text holds "splot" and no "replot" has made the second plot 3D
C1_Witness ==
    /\ last.op = "cmd"
    /\ Contains(last.args[1], "splot") /\ ~Contains(last.args[1], "replot")
    /\ gp[last.s].valid /\ gp[last.s].two_dim = FALSE /\ gp[last.s].nplots = 2

---------------------------------------------------------------------------
\* C2: on a session whose validity flag is false, no call writes a line to
\* the pipe, and cmd leaves the object, the temp-file counter and the disk
\* as they were.
C2_InvalidWritesNothing ==
    [][(last'.op # "Gnuplot" /\ ~gp[last'.s].valid) =>
        /\ LinesOf(ev') = <<>>
        /\ last'.op = "cmd" =>
              /\ gp'[last'.s] = gp[last'.s]
              /\ tmpfile_num' = tmpfile_num
              /\ disk' = disk
              /\ last'.exc = ""]_vars

\* cmd("plot x") was called on a session whose constructor had thrown
C2_Witness ==
    /\ last.op = "cmd" /\ last.args[1] = "plot x"
    /\ gp[last.s].life = "invalid" /\ ~gp[last.s].valid
    /\ gp[last.s].nplots = 0 /\ ev = <<>>

---------------------------------------------------------------------------
\* C3: an emitter that completes on a valid session writes one line.  For
\* plotfile_x, plotfile_xy, plotfile_xy_err, plot_slope, plot_equation and
\* plot_image the line starts with "replot " exactly when nplots > 0 and
\* two_dim held before the call, and with "plot " otherwise; for plotfile_xyz
\* and plot_equation3d it starts with "replot " exactly when nplots > 0 and
\* two_dim = false held before the call, and with "splot " otherwise.
C3_VerbSelection ==
    [][(/\ last'.op \in Emitters2d \cup Emitters3d
        /\ gp[last'.s].valid
        /\ last'.exc = "") =>
        LET g == gp[last'.s]
            l == LinesOf(ev')
        IN  /\ Len(l) = 1
            /\ last'.op \in Emitters2d =>
                  IF g.nplots > 0 /\ g.two_dim
                  THEN StartsWith(l[1], "replot ")
                  ELSE StartsWith(l[1], "plot ")
            /\ last'.op \in Emitters3d =>
                  IF g.nplots > 0 /\ ~g.two_dim
                  THEN StartsWith(l[1], "replot ")
                  ELSE StartsWith(l[1], "splot ")]_vars

\* plot_equation wrote "plot ..." as the second plot: the first one was 3D
C3_Witness ==
    /\ last.op = "plot_equation" /\ gp[last.s].valid
    /\ LinesOf(ev) = <<"plot x**2 notitle with points\n">>
    /\ gp[last.s].nplots = 2 /\ gp[last.s].two_dim

---------------------------------------------------------------------------
---------------------------------------------------------------------------
\* C5: the lines of a call reach the pipe in the order its code issues them,
\* each followed at once by a flush of the pipe; a cmd on a valid session
\* writes its text and a newline; and every temp file a plot line names was
\* created, written and closed before that line was written, with nothing
\* done to the file afterwards.
FileEvents == {"mkstemp", "open", "write", "flush", "close"}

C5_Ordering ==
    /\ \A i \in DOMAIN ev :
          ev[i][1] = "fputs" =>
              /\ i < Len(ev) /\ ev[i + 1][1] = "fflush"
              /\ \A j \in DOMAIN ev :
                    (/\ ev[j][1] \in FileEvents
                     /\ ev[j][2] # ""
                     /\ Contains(ev[i][2], "\"" \o ev[j][2] \o "\"")) =>
                        /\ j < i
                        /\ \E k \in j..(i - 1) : ev[k] = <<"close", ev[j][2], "">>
    /\ \A j, k \in DOMAIN ev :
          ev[j][1] = "write" /\ ev[k] = <<"close", ev[j][2], "">> => j < k
    /\ (last.op = "cmd" /\ gp[last.s].valid) =>
          ev = << <<"fputs", last.args[1] \o "\n", "">>, <<"fflush", "", "">> >>
    /\ (last.op = "reset_all" /\ gp[last.s].valid) =>
          LinesOf(ev) = <<"reset\n", "clear\n", "set output\n", "set terminal x11\n">>

\* plot_xy wrote two rows to its temp file, closed it, then wrote the plot line
C5_Witness ==
    /\ last.op = "plot_xy" /\ last.exc = "" /\ gp[last.s].valid
    /\ Len(ev) = 8
    /\ ev[3][1] = "write" /\ ev[4][1] = "write"
    /\ ev[6] = <<"close", ev[3][2], "">>
    /\ ev[7][1] = "fputs" /\ Contains(ev[7][2], "\"" \o ev[3][2] \o "\"")
    /\ ev[8][1] = "fflush"

---------------------------------------------------------------------------
\* C6: plot_x with an empty vector, and plot_xy, plot_xy_err and plot_xyz with
\* an empty vector or vectors of different lengths, raise the failure and
\* change nothing: no temp file is allocated, nothing is written, and the
\* object, the counter and the disk are as before.
BadLengths(v) ==
    \/ \E i \in DOMAIN v : Len(v[i]) = 0
    \/ \E i, j \in DOMAIN v : Len(v[i]) # Len(v[j])

C6_BadInputFailsFirst ==
    [][(/\ last'.op \in {"plot_x", "plot_xy", "plot_xy_err", "plot_xyz"}
        /\ BadLengths(SubSeq(last'.args, 1, Len(last'.args) - 1))) =>
        /\ last'.exc \in {"std::vector too small", "std::vectors too small",
                          "Length of the std::vectors differs"}
        /\ ev' = <<>>
        /\ gp' = gp
        /\ tmpfile_num' = tmpfile_num
        /\ disk' = disk]_vars

\* plot_xyz was given z longer than x and y and raised the length failure
C6_Witness ==
    /\ last.op = "plot_xyz"
    /\ Len(last.args[1]) = 1 /\ Len(last.args[2]) = 1 /\ Len(last.args[3]) = 2
    /\ last.exc = "Length of the std::vectors differs"
    /\ ev = <<>> /\ tmpfile_num = 0

---------------------------------------------------------------------------
\* The temp-file pool seen from outside

QuotaMessage ==
    "Maximum number of temporary files reached ("
        \o FmtNat(GP_MAX_TMP_FILES) \o "): cannot open more files\n"

\* the temp files on disk
Outstanding == disk \ UserFiles

\* the entries of session s's list that are still on disk
Kept(s) == {i \in DOMAIN gp[s].tmpfile_list : gp[s].tmpfile_list[i] \in disk}

RECURSIVE SumKept(_)
SumKept(S) ==
    IF S = {} THEN 0
    ELSE LET s == CHOOSE t \in S : TRUE
         IN  Cardinality(Kept(s)) + SumKept(S \ {s})

Live == {s \in Sess : gp[s].life \in {"live", "invalid"}}

---------------------------------------------------------------------------
\* C7: the counter never exceeds GP_MAX_TMP_FILES - 1, so never more than
\* GP_MAX_TMP_FILES - 1 temp files are outstanding, and a plot_x with data
\* called while the counter is GP_MAX_TMP_FILES - 1 raises the quota failure
\* without allocating, whichever session calls it.
C7_QuotaBound ==
    /\ [](/\ tmpfile_num <= GP_MAX_TMP_FILES - 1
          /\ Cardinality(Outstanding) <= GP_MAX_TMP_FILES - 1)
    /\ [][(/\ last'.op = "plot_x" /\ Len(last'.args[1]) > 0
           /\ tmpfile_num = GP_MAX_TMP_FILES - 1) =>
           /\ last'.exc = QuotaMessage
           /\ tmpfile_num' = tmpfile_num
           /\ disk' = disk
           /\ gp' = gp]_vars

\* session 2, holding one file, asked for another while the counter was 63
C7_Witness ==
    /\ tmpfile_num = GP_MAX_TMP_FILES - 1
    /\ last = [op |-> "plot_x", s |-> 2, args |-> <<<<7>>, "">>, exc |-> QuotaMessage]
    /\ Len(gp[2].tmpfile_list) = 1
    /\ Len(gp[1].tmpfile_list) = GP_MAX_TMP_FILES - 2

---------------------------------------------------------------------------
\* C8 (as amended): create_tmpfile passes the quota test whenever the counter
\* differs from GP_MAX_TMP_FILES - 1 and raises the quota failure exactly when
\* the counter equals GP_MAX_TMP_FILES - 1.
C8_QuotaTest ==
    [][(last'.op = "plot_x" /\ Len(last'.args[1]) > 0) =>
        (last'.exc = QuotaMessage <=> tmpfile_num = GP_MAX_TMP_FILES - 1)]_vars

\* C8 as stated: the quota test passes whenever the counter is below
\* GP_MAX_TMP_FILES and raises only when it is not
C8_AsStated ==
    [][(last'.op = "plot_x" /\ Len(last'.args[1]) > 0) =>
        /\ tmpfile_num < GP_MAX_TMP_FILES => last'.exc # QuotaMessage
        /\ last'.exc = QuotaMessage => ~(tmpfile_num < GP_MAX_TMP_FILES)]_vars

\* the 64th allocation of a session holding 63 files was refused
C8_Witness ==
    /\ last.op = "plot_x" /\ last.exc = QuotaMessage
    /\ tmpfile_num = GP_MAX_TMP_FILES - 1
    /\ Len(gp[last.s].tmpfile_list) = GP_MAX_TMP_FILES - 1
    /\ Cardinality(Outstanding) = GP_MAX_TMP_FILES - 1

---------------------------------------------------------------------------
\* C9 as stated: in every reachable state the counter equals the number of
\* entries of the live sessions' temp-file lists less the files removed, that
\* is, the number of listed files of live sessions that are still on disk.
C9_AsStated == tmpfile_num = SumKept(Live)

---------------------------------------------------------------------------
\* C10: remove_tmpfiles unlinks the paths of the session's list in list
\* order.  When every unlink succeeds the counter drops by the length of the
\* list, so a session that allocated 63 files brings it from 63 to 0.  When an
\* unlink fails the call raises the failure naming that path, attempts no
\* later path, and leaves the counter as it was.
C10_RemoveTmpfiles ==
    [][last'.op = "remove_tmpfiles" =>
        LET l == gp[last'.s].tmpfile_list
            n == Len(ev')
        IN  /\ n <= Len(l)
            /\ \A i \in 1..n : ev'[i][1] = "remove" /\ ev'[i][2] = l[i]
            /\ \A i \in 1..(n - 1) : ev'[i][3] = "" /\ l[i] \notin disk'
            /\ IF last'.exc = ""
               THEN /\ n = Len(l)
                    /\ n > 0 => ev'[n][3] = "" /\ l[n] \notin disk'
                    /\ tmpfile_num' = tmpfile_num - Len(l)
                    /\ (tmpfile_num = GP_MAX_TMP_FILES - 1
                           /\ Len(l) = GP_MAX_TMP_FILES - 1) => tmpfile_num' = 0
               ELSE /\ n > 0 /\ ev'[n][3] = "-1"
                    /\ last'.exc = "Cannot remove temporary file \"" \o l[n] \o "\""
                    /\ tmpfile_num' = tmpfile_num
                    /\ \A i \in n..Len(l) : (l[i] \in disk) = (l[i] \in disk')
            /\ gp'[last'.s].tmpfile_list = l]_vars

\* a session that held 63 files removed them all and the counter is 0
C10_Witness ==
    /\ last.op = "remove_tmpfiles" /\ last.exc = ""
    /\ Len(gp[last.s].tmpfile_list) = GP_MAX_TMP_FILES - 1
    /\ Len(ev) = GP_MAX_TMP_FILES - 1
    /\ Outstanding = {}
    /\ tmpfile_num = 0

---------------------------------------------------------------------------
\* C11 as stated: once a session whose child was spawned has ended, by
\* teardown or by a failure raised in its constructor after the spawn, its
\* pipe is closed and none of the temp files it created is left on disk.
Ended == {s \in Sess : gp[s].life \in {"dead", "failed"}}

C11_AsStated ==
    \A s \in Ended :
        /\ gp[s].gnucmd # "open"
        /\ \A i \in DOMAIN gp[s].tmpfile_list : gp[s].tmpfile_list[i] \notin disk

---------------------------------------------------------------------------
\* C12 as stated: after a successful construction, whatever the default
\* terminal is, the session is valid, smoothing is empty, nplots = 0 and
\* two_dim = false, and the pipe, just opened, has received exactly the two
\* lines "set output" and "set terminal <default>".
C12_AsStated ==
    (last.op = "Gnuplot" /\ last.exc = "") =>
        /\ gp[last.s].valid
        /\ gp[last.s].smooth = ""
        /\ gp[last.s].nplots = 0
        /\ gp[last.s].two_dim = FALSE
        /\ ev[1][1] = "popen"
        /\ LinesOf(ev) = <<"set output\n", "set terminal " \o terminal_std \o "\n">>

---------------------------------------------------------------------------
\* The plotter as the environment holds it

\* directory dir, with or without a trailing '/', holds an executable plotter
HoldsPlotter(env, dir) == \E d \in env.exe : dir \in {d, d \o "/"}

EventKinds(e) == {e[i][1] : i \in DOMAIN e}

LocateFailures(dir) ==
    {"Path is not set",
     "Can't find gnuplot neither in PATH nor in \"" \o dir \o "\""}

---------------------------------------------------------------------------
\* C13: a constructor raises when DISPLAY is missing, else when the plotter
\* is not located, else when the child cannot be spawned, in that order, and
\* only then.  When it raises, valid = false and nplots = 0, no child was
\* spawned and nothing was written; with DISPLAY missing the configured
\* directory is as before.  Every later cmd on that session changes nothing
\* and writes nothing.
C13_ConstructionFailure ==
    [][/\ last'.op = "Gnuplot" =>
            LET env == last'.args[2]
                g == gp'[last'.s]
            IN  /\ ~env.DISPLAY =>
                      /\ last'.exc = "Can't find DISPLAY variable"
                      /\ m_sGNUPlotPath' = m_sGNUPlotPath
                /\ (env.DISPLAY /\ ~HoldsPlotter(env, m_sGNUPlotPath')) =>
                      /\ last'.exc \in LocateFailures(m_sGNUPlotPath)
                      /\ m_sGNUPlotPath' = m_sGNUPlotPath
                /\ (env.DISPLAY /\ HoldsPlotter(env, m_sGNUPlotPath')) =>
                      last'.exc = IF env.popen_ok THEN ""
                                  ELSE "Couldn't open connection to gnuplot"
                /\ last'.exc # "" =>
                      /\ g.valid = FALSE /\ g.nplots = 0
                      /\ g.gnucmd = "NULL"
                      /\ ev' = <<>>
                /\ last'.exc = "" => "popen" \in EventKinds(ev')
       /\ (last'.op = "cmd" /\ gp[last'.s].life = "invalid") =>
            /\ gp' = gp
            /\ ev' = <<>>
            /\ last'.exc = ""]_vars

\* with the configured directory blank and the plotter on PATH, a constructor
\* found no DISPLAY, raised, and left the directory blank
C13_Witness ==
    /\ last.op = "Gnuplot" /\ last.exc = "Can't find DISPLAY variable"
    /\ last.args[2] = NoDisplayOnPath
    /\ m_sGNUPlotPath = ""
    /\ gp[last.s].life = "invalid" /\ ~gp[last.s].valid /\ ev = <<>>

---------------------------------------------------------------------------
\* The entries of each PATH value of the environments, written out by hand
PathDirs(env) ==
    IF env.PATH = <<>> THEN <<>>
    ELSE CASE env.PATH[1] = "/bin:/usr/bin" -> <<"/bin", "/usr/bin">>
           [] env.PATH[1] = ":/opt/gp/bin::/usr/bin:" -> <<"/opt/gp/bin", "/usr/bin">>
           [] env.PATH[1] = "" -> <<>>

\* the PATH entries that hold the plotter, by position
PathHits(env) == {i \in DOMAIN PathDirs(env) : HoldsPlotter(env, PathDirs(env)[i])}

FirstHit(env) == PathDirs(env)[CHOOSE i \in PathHits(env) : \A j \in PathHits(env) : i <= j]

---------------------------------------------------------------------------
\* C14 (as amended): set_GNUPlotPath(p) returns true and makes p the
\* configured directory when <p>/<filename> passes the check; otherwise it
\* returns false and blanks the configured directory.  A construction begun
\* with the directory blank locates the plotter through PATH alone: it raises
\* when DISPLAY is missing, PATH is absent or no PATH entry passes, and
\* otherwise goes on with the directory set to the first entry that passes.
C14_SetPath ==
    [][/\ last'.op = "set_GNUPlotPath" =>
            LET p == last'.args[1]
                env == last'.args[2]
            IN  /\ last'.exc = ""
                /\ IF HoldsPlotter(env, p)
                   THEN ev' = << <<"return", "true", "">> >> /\ m_sGNUPlotPath' = p
                   ELSE ev' = << <<"return", "false", "">> >> /\ m_sGNUPlotPath' = ""
       /\ (last'.op = "Gnuplot" /\ m_sGNUPlotPath = "") =>
            LET env == last'.args[2]
            IN  IF ~env.DISPLAY \/ PathHits(env) = {}
                THEN /\ last'.exc \in {"Can't find DISPLAY variable"}
                                         \cup LocateFailures("")
                     /\ m_sGNUPlotPath' = ""
                ELSE /\ m_sGNUPlotPath' = FirstHit(env)
                     /\ last'.exc = IF env.popen_ok THEN ""
                                    ELSE "Couldn't open connection to gnuplot"]_vars

\* C14 as stated: a construction that follows a set_GNUPlotPath that returned
\* false, in the same environment, raises
C14_AsStated ==
    [][/\ last'.op = "set_GNUPlotPath" =>
            LET p == last'.args[1]
                env == last'.args[2]
            IN  IF HoldsPlotter(env, p)
                THEN ev' = << <<"return", "true", "">> >> /\ m_sGNUPlotPath' = p
                ELSE ev' = << <<"return", "false", "">> >> /\ m_sGNUPlotPath' = ""
       /\ (/\ last.op = "set_GNUPlotPath"
           /\ ev = << <<"return", "false", "">> >>
           /\ last'.op = "Gnuplot"
           /\ last'.args[2] = last.args[2]) => last'.exc # ""]_vars

\* set_GNUPlotPath("/nonexistent") returned false and blanked the directory
C14_Witness ==
    /\ last.op = "set_GNUPlotPath" /\ last.args[1] = "/nonexistent"
    /\ ev = << <<"return", "false", "">> >>
    /\ m_sGNUPlotPath = ""

---------------------------------------------------------------------------
\* C15: a constructor that gets past the DISPLAY test locates the plotter.
\* If the configured directory holds it, the directory stays as it is and
\* the plotter counts as found, PATH set or not.  Otherwise, with PATH unset
\* the call raises "Path is not set"; with no PATH entry holding the plotter
\* it raises the not-found failure; in both cases the directory stays as it
\* is.  Otherwise the directory becomes the first PATH entry, in PATH order,
\* that holds the plotter, and the plotter counts as found.
C15_Locate ==
    [][(last'.op = "Gnuplot" /\ last'.args[2].DISPLAY) =>
        LET env == last'.args[2]
            dir == m_sGNUPlotPath
            found == last'.exc \in {"", "Couldn't open connection to gnuplot"}
        IN  IF HoldsPlotter(env, dir)
            THEN found /\ m_sGNUPlotPath' = dir
            ELSE IF env.PATH = <<>>
                 THEN last'.exc = "Path is not set" /\ m_sGNUPlotPath' = dir
            ELSE IF PathHits(env) = {}
                 THEN /\ last'.exc = "Can't find gnuplot neither in PATH nor in \""
                                         \o dir \o "\""
                      /\ m_sGNUPlotPath' = dir
            ELSE found /\ m_sGNUPlotPath' = FirstHit(env)]_vars

\* with the plotter in both PATH entries and not in the configured
\* directory, the constructor set the directory to the first entry
C15_Witness ==
    /\ last.op = "Gnuplot" /\ last.exc = ""
    /\ last.args[2] = OnPathTwice
    /\ m_sGNUPlotPath = "/bin"
    /\ gp[last.s].valid

---------------------------------------------------------------------------
\* C16: replot writes the one line "replot" when the session is valid and
\* nplots > 0, and nothing otherwise; nplots, two_dim and the rest of the
\* object are as before.
C16_Replot ==
    [][last'.op = "replot" =>
        LET g == gp[last'.s]
        IN  /\ ev' = IF g.valid /\ g.nplots > 0
                     THEN << <<"fputs", "replot\n", "">>, <<"fflush", "", "">> >>
                     ELSE <<>>
            /\ gp' = gp
            /\ last'.exc = ""]_vars

\* replot wrote its line on a session that holds two plots
C16_Witness ==
    /\ last.op = "replot" /\ LinesOf(ev) = <<"replot\n">>
    /\ gp[last.s].valid /\ gp[last.s].nplots = 2

---------------------------------------------------------------------------
\* C17 as stated: reset_all on a valid session writes the four lines "reset",
\* "clear", "set output", "set terminal <default>" in that order and leaves
\* nplots = 0, the style "points" and smoothing empty, whatever the state
\* before and whatever the default terminal; the session's temp-file list and
\* the counter are as before.
C17_AsStated ==
    [][(last'.op = "reset_all" /\ gp[last'.s].valid) =>
        LET g == gp[last'.s]
            h == gp'[last'.s]
        IN  /\ LinesOf(ev') = <<"reset\n", "clear\n", "set output\n",
                                "set terminal " \o terminal_std \o "\n">>
            /\ h.nplots = 0
            /\ h.pstyle = "points"
            /\ h.smooth = ""
            /\ h.tmpfile_list = g.tmpfile_list
            /\ tmpfile_num' = tmpfile_num]_vars

---------------------------------------------------------------------------
\* C18: reset_plot sets nplots to 0 and changes nothing else: it writes
\* nothing, removes no file, and leaves two_dim, style, smoothing, validity,
\* the temp-file list and the counter as they were.  An emitter that
\* completes next on the session, if valid, starts its line with "plot " or
\* "splot ".
C18_ResetPlot ==
    [][/\ last'.op = "reset_plot" =>
            /\ gp' = [gp EXCEPT ![last'.s].nplots = 0]
            /\ ev' = <<>>
            /\ disk' = disk
            /\ tmpfile_num' = tmpfile_num
            /\ last'.exc = ""
       /\ (/\ last.op = "reset_plot"
           /\ last'.op \in Emitters2d \cup Emitters3d
           /\ last'.s = last.s
           /\ gp[last.s].valid
           /\ last'.exc = "") =>
            /\ Len(LinesOf(ev')) = 1
            /\ StartsWith(LinesOf(ev')[1],
                          IF last'.op \in Emitters2d THEN "plot " ELSE "splot ")]_vars

\* reset_plot on a session that holds a 2D plot backed by two temp files
C18_Witness ==
    /\ last.op = "reset_plot"
    /\ gp[last.s].valid /\ gp[last.s].nplots = 0 /\ gp[last.s].two_dim
    /\ Len(gp[last.s].tmpfile_list) = 2
    /\ \A i \in 1..2 : gp[last.s].tmpfile_list[i] \in disk
    /\ tmpfile_num = 2

---------------------------------------------------------------------------
\* C19: the destructor calls pclose once and raises nothing; when pclose
\* fails it writes a warning to std::cerr.  It unlinks no temp file and
\* leaves the session's list and the counter as they were.  A destroyed
\* session is never touched again and its files stay on disk, so the counter
\* goes on counting them.
Dead == {s \in Sess : gp[s].life = "dead"}

PcloseOnly == << <<"pclose", "", "">> >>

PcloseWarned ==
    << <<"pclose", "", "">>,
       <<"cerr", "Gnuplot::~Gnuplot: Problem closing communication to gnuplot", "">> >>

---------------------------------------------------------------------------
\* C20: plotfile_x, plotfile_xy, plotfile_xy_err and plotfile_xyz test the
\* named file first, for existence and then for read permission.  For a
\* missing file they raise "does not exist", for an unreadable one "No read
\* permission"; in both cases nothing is written and the object is as
\* before.  They write a line only for a file that exists and can be read.
FileEmitters == {"plotfile_x", "plotfile_xy", "plotfile_xy_err", "plotfile_xyz"}

C20_FileChecked ==
    [][last'.op \in FileEmitters =>
        LET f == last'.args[1]
        IN  /\ f \notin disk =>
                  /\ last'.exc = "File \"" \o f \o "\" does not exist"
                  /\ ev' = <<>> /\ gp' = gp
            /\ (f \in disk /\ f \in NoRead) =>
                  /\ last'.exc = "No read permission for File \"" \o f \o "\""
                  /\ ev' = <<>> /\ gp' = gp
            /\ (f \in disk /\ f \notin NoRead) => last'.exc = ""
            /\ LinesOf(ev') # <<>> =>
                  /\ f \in disk /\ f \notin NoRead
                  /\ Contains(LinesOf(ev')[1], "\"" \o f \o "\" using ")]_vars

\* plotfile_xy_err was refused an unreadable file on a session with a plot
C20_Witness ==
    /\ last.op = "plotfile_xy_err" /\ last.args[1] = "secret.dat"
    /\ last.exc = "No read permission for File \"secret.dat\""
    /\ ev = <<>>
    /\ gp[last.s].valid /\ gp[last.s].nplots = 1


---------------------------------------------------------------------------
\* C21 as stated: nplots is never negative, and every operation on a session
\* other than reset_plot and reset_all leaves nplots where it was or raises
\* it by exactly one.
C21_AsStated ==
    /\ [](\A s \in Sess : gp[s].nplots >= 0)
    /\ [][\A s \in Sess :
             (/\ last'.s = s
              /\ gp[s].life \in {"live", "invalid"}
              /\ last'.op \notin {"reset_plot", "reset_all"})
             => /\ gp'[s].nplots >= gp[s].nplots
                /\ gp'[s].nplots <= gp[s].nplots + 1]_vars


---------------------------------------------------------------------------
\* the setters that only format a directive and submit it through cmd
StatelessSetters ==
    {"set_title", "unset_title", "set_legend", "set_contour", "savetofigure",
     "showonscreen", "set_pointsize", "set_samples", "set_isosamples"}
    \cup DOMAIN FixedSetters
    \cup {"set_" \o a \o "label" : a \in Axes}
    \cup {"set_" \o a \o "range" : a \in Axes \cup {"cb"}}
    \cup {"set_" \o a \o "autoscale" : a \in Axes}
    \cup {"set_" \o a \o "logscale" : a \in Axes}
    \cup {"unset_" \o a \o "logscale" : a \in Axes}

\* C22 as stated: for every argument value, a stateless setter leaves the
\* frame counter nplots and the frame mode two_dim of its session unchanged.
C22_AsStated ==
    [][last'.op \in StatelessSetters =>
          /\ gp'[last'.s].nplots = gp[last'.s].nplots
          /\ gp'[last'.s].two_dim = gp[last'.s].two_dim]_vars


---------------------------------------------------------------------------
\* the smoothing modes set_smooth looks for
SmoothTokens == {"unique", "frequency", "csplines", "bezier"}

\* C23: set_smooth(x) leaves the smoothing state non-empty exactly when x
\* contains one of unique, frequency, csplines, bezier as a substring, and
\* the state is then x itself; any other x, the empty string included, clears
\* it.  set_smooth writes nothing and changes nothing else of the session.
C23_SetSmooth ==
    [][last'.op = "set_smooth" =>
          LET x == last'.args[1]
              g == gp[last'.s]
              h == gp'[last'.s]
          IN  /\ h.smooth # "" <=> \E t \in SmoothTokens : Contains(x, t)
              /\ h.smooth \in {x, ""}
              /\ ev' = <<>>
              /\ last'.exc = ""
              /\ h = [g EXCEPT !.smooth = h.smooth]]_vars

\* a mode that contains a token without being one was stored as given
C23_Witness ==
    /\ last.op = "set_smooth"
    /\ last.args = <<"acsplines">>
    /\ gp[last.s].smooth = "acsplines"


---------------------------------------------------------------------------
\* C27: the line plotfile_x and plotfile_xy write ends with `smooth <mode>`
\* exactly when the smoothing state is non-empty and with `with <style>`
\* otherwise; plotfile_xy_err always writes `with errorbars` and plotfile_xyz
\* always ends with `with <style>`, whatever the smoothing state.  The
\* smoothing state is changed by set_smooth, unset_smooth, reset_all and
\* construction only, and unset_smooth and reset_all leave it empty.
C27_SmoothClause ==
    [][LET g == gp[last'.s]
           h == gp'[last'.s]
           lines == LinesOf(ev')
       IN  /\ (last'.op \in {"plotfile_x", "plotfile_xy"} /\ lines # <<>>) =>
                 /\ Len(lines) = 1
                 /\ IF g.smooth # ""
                    THEN /\ EndsWith(lines[1], " smooth " \o g.smooth \o "\n")
                         /\ ~Contains(lines[1], " with ")
                    ELSE /\ EndsWith(lines[1], " with " \o g.pstyle \o "\n")
                         /\ ~Contains(lines[1], " smooth ")
           /\ (last'.op = "plotfile_xy_err" /\ lines # <<>>) =>
                 /\ Len(lines) = 1
                 /\ Contains(lines[1], " with errorbars ")
                 /\ ~Contains(lines[1], " smooth ")
           /\ (last'.op = "plotfile_xyz" /\ lines # <<>>) =>
                 /\ Len(lines) = 1
                 /\ EndsWith(lines[1], " with " \o g.pstyle \o "\n")
                 /\ ~Contains(lines[1], " smooth ")
           /\ (last'.s \in Sess /\ h.smooth # g.smooth) =>
                 last'.op \in {"set_smooth", "unset_smooth", "reset_all", "Gnuplot"}
           /\ last'.op \in {"unset_smooth", "reset_all"} => h.smooth = ""]_vars

\* plotfile_xy wrote a smoothing clause two operations after set_smooth
C27_Witness ==
    /\ last.op = "plotfile_xy"
    /\ gp[last.s].smooth = "acsplines"
    /\ gp[last.s].nplots = 2
    /\ LinesOf(ev) # <<>>
    /\ EndsWith(LinesOf(ev)[1], " smooth acsplines\n")


---------------------------------------------------------------------------
\* C28 as stated: the plot style of a constructed session is never empty,
\* whatever the constructor's style argument and whatever set_style and
\* reset_all calls followed, and no emitter writes a `with` clause that
\* names an empty style.
C28_AsStated ==
    /\ \A s \in Sess : gp[s].life = "live" => gp[s].pstyle # ""
    /\ \A i \in DOMAIN LinesOf(ev) : ~EndsWith(LinesOf(ev)[i], " with \n")


---------------------------------------------------------------------------
\* the texts written to file name, in the order of the writes
RECURSIVE WrittenTo(_, _)
WrittenTo(e, name) ==
    IF e = <<>> THEN <<>>
    ELSE IF e[1][1] = "write" /\ e[1][2] = name
         THEN <<e[1][3]>> \o WrittenTo(Tail(e), name)
    ELSE WrittenTo(Tail(e), name)

\* the files a call opened for writing
Opened(e) == {e[i][2] : i \in {j \in DOMAIN e : e[j][1] = "open" /\ e[j][3] = ""}}

\* C24: for all non-empty vectors of equal length, once the temp file is
\* allocated and open, plot_x writes one line per element of x, in index
\* order, holding x[i]; plot_xy writes x[i] and y[i] separated by a blank;
\* plot_xy_err and plot_xyz write three fields; no other file is written.  On
\* a valid session the one plot line that follows names that file with the
\* fixed columns 1, 1:2 and 1:2:3.
C24_Materialise ==
    [][\A name \in Opened(ev') :
          LET a == last'.args
              n == Len(a[1])
              rows == WrittenTo(ev', name)
              lines == LinesOf(ev')
              using == CASE last'.op = "plot_x" -> "1 "
                         [] last'.op = "plot_xy" -> "1:2 "
                         [] last'.op \in {"plot_xy_err", "plot_xyz"} -> "1:2:3 "
          IN  last'.op \in {"plot_x", "plot_xy", "plot_xy_err", "plot_xyz"} =>
                /\ n > 0
                /\ Opened(ev') = {name}
                /\ \A i \in DOMAIN ev' : ev'[i][1] = "write" => ev'[i][2] = name
                /\ Len(rows) = n
                /\ \A i \in 1..n :
                      rows[i] =
                         CASE last'.op = "plot_x" -> FmtDouble(a[1][i]) \o "\n"
                           [] last'.op = "plot_xy" ->
                                FmtDouble(a[1][i]) \o " " \o FmtDouble(a[2][i]) \o "\n"
                           [] OTHER ->
                                FmtDouble(a[1][i]) \o " " \o FmtDouble(a[2][i])
                                \o " " \o FmtDouble(a[3][i]) \o "\n"
                /\ name \in disk'
                /\ gp[last'.s].valid =>
                      /\ Len(lines) = 1
                      /\ Contains(lines[1], "plot \"" \o name \o "\" using " \o using)]_vars

\* plot_xy wrote the rows of x = (1, 2), y = (-3, 4) and the plot line
C24_Witness ==
    /\ last.op = "plot_xy"
    /\ last.args = <<<<1, 2>>, <<-3, 4>>, "">>
    /\ \E name \in Opened(ev) :
          /\ WrittenTo(ev, name) = <<"1 -3\n", "2 4\n">>
          /\ LinesOf(ev) = <<"plot \"" \o name \o "\" using 1:2 notitle with points\n">>


---------------------------------------------------------------------------
\* the three ways an allocation fails within a call: the quota test met on
\* entry, mkstemp returning -1, std::ofstream::open failing
QuotaFailure == tmpfile_num = GP_MAX_TMP_FILES - 1

MkstempFailure(e) == \E i \in DOMAIN e : e[i] = <<"mkstemp", "", "-1">>

OpenFailure(e) == \E i \in DOMAIN e : e[i][1] = "open" /\ e[i][3] = "failbit"

DataPlots == {"plot_x", "plot_xy", "plot_xy_err", "plot_xyz", "plot_image"}

\* C26 as stated: when a data-plot call with well-formed input meets one of
\* the three allocation failures, it ends with an exception, the session's
\* temp-file list and the counter are as before, and nothing was written to
\* the pipe.
C26_AsStated ==
    [][(/\ last'.op \in DataPlots
        /\ \/ /\ QuotaFailure
              /\ \/ last'.op = "plot_image"
                 \/ ~BadLengths(SubSeq(last'.args, 1, Len(last'.args) - 1))
           \/ MkstempFailure(ev')
           \/ OpenFailure(ev'))
       => /\ last'.exc # ""
          /\ gp'[last'.s].tmpfile_list = gp[last'.s].tmpfile_list
          /\ tmpfile_num' = tmpfile_num
          /\ LinesOf(ev') = <<>>]_vars


---------------------------------------------------------------------------
\* C29 as stated: an emitter writes a line beginning `replot ` only if a line
\* beginning `plot ` (for a 2D emitter) or `splot ` (for a 3D emitter) was
\* written on the session earlier, after its construction and after the most
\* recent reset_plot or reset_all.
C29_AsStated ==
    [][(/\ last'.op \in Emitters2d \cup Emitters3d
        /\ \E i \in DOMAIN LinesOf(ev') : StartsWith(LinesOf(ev')[i], "replot "))
       => (IF last'.op \in Emitters2d THEN "plot " ELSE "splot ")
             \in drawn[last'.s]]_vars


---------------------------------------------------------------------------
\* C30 as stated: where every unlink of an existing file succeeds, a
\* remove_tmpfiles that directly follows a successful remove_tmpfiles of the
\* same session succeeds and leaves the counter as it is; and a
\* remove_tmpfiles that follows an earlier removal and further successful
\* data-plot calls succeeds, leaves none of the session's files on disk and
\* lowers the counter by the number of files those calls created.
C30_AsStated ==
    [][last'.op = "remove_tmpfiles" =>
          LET s == last'.s
          IN  /\ (last.op = "remove_tmpfiles" /\ last.s = s /\ last.exc = "") =>
                    /\ last'.exc = ""
                    /\ tmpfile_num' = tmpfile_num
              /\ (/\ last.op \in DataPlots /\ last.s = s /\ last.exc = ""
                  /\ Kept(s) # DOMAIN gp[s].tmpfile_list) =>
                    /\ last'.exc = ""
                    /\ \A i \in DOMAIN gp[s].tmpfile_list :
                          gp[s].tmpfile_list[i] \notin disk'
                    /\ tmpfile_num' = tmpfile_num - Cardinality(Kept(s))]_vars


---------------------------------------------------------------------------
\* C25: calls of create_tmpfile by two sessions can overlap so that the
\* counter ends different from the number of temp files outstanding.  When
\* both callers passed the quota test on the same counter value n, one has
\* finished and the counter, at n + 1, counts every outstanding file but the
\* second caller's, the second caller's write makes the counter equal to the
\* number of outstanding files exactly when it read the counter after the
\* first caller's write: it writes n + 2 then, and n + 1, losing one
\* increment, when it read before.  For n = GP_MAX_TMP_FILES - 2 neither
\* call is rejected and the counter ends at the value the quota test
\* compares with or past it.
C25_Race ==
    [][\A s \in Sess : \A o \in Sess \ {s} :
          (/\ thr[s].pc = "store" /\ thr'[s].pc = "idle"
           /\ thr[s].delta = 1 /\ thr[o].delta = 1
           /\ thr[o].pc = "idle"
           /\ thr[o].seen = thr[s].seen
           /\ tmpfile_num = thr[s].seen + 1
           /\ Cardinality(Outstanding) = tmpfile_num + 1)
          => /\ tmpfile_num' = Cardinality(Outstanding') <=> thr[s].reg = tmpfile_num
             /\ thr[s].reg = thr[s].seen => tmpfile_num' = thr[s].seen + 1
             /\ thr[s].reg = tmpfile_num => tmpfile_num' = thr[s].seen + 2]_vars

\* both callers passed the quota test at GP_MAX_TMP_FILES - 2 and finished:
\* the counter is GP_MAX_TMP_FILES - 1 with GP_MAX_TMP_FILES files outstanding
C25_Witness ==
    /\ \A s \in Sess :
          /\ thr[s].pc = "idle"
          /\ thr[s].delta = 1
          /\ thr[s].seen = GP_MAX_TMP_FILES - 2
    /\ tmpfile_num = GP_MAX_TMP_FILES - 1
    /\ Cardinality(Outstanding) = GP_MAX_TMP_FILES

=============================================================================
